---- MODULE Spec2Model ----
(***************************************************************************)
(* Model of the monitor-politico ingestion scripts:                        *)
(*   - fetch_paginated_records / get_deputados (paginated fetch + retry),  *)
(*   - main / run_pipeline of igtao_api_deputados.py (multi-table run),    *)
(*   - fetch_records_by_ids (per-ID detail requests),                      *)
(*   - APIClient.fetch_in_batches / fetch_data (async batches),            *)
(*   - the path substitution of the three build_url implementations.       *)
(* The pandas display steps of run_pipeline are not modelled.              *)
(***************************************************************************)
EXTENDS Integers, Sequences, FiniteSets, TLC

(***************************************************************************)
(* Bounds of the model.                                                    *)
(***************************************************************************)
MaxRetries == 3
MaxBackoff == 1
MaxPages == 3
MaxPageLen == 1
MaxSpin == 2
MaxPipePages == 1
MaxPipePageLen == 1
MaxItems == 4
MaxBatchSize == 3
MaxParamValue == 2
MaxCalls == 2
MaxBatchLen == 2
MaxDados == 2
MaxPageSize == 3
MaxCounterPages == 3
MaxWait == 12
MaxIds == 3
MaxIdValue == 2

(***************************************************************************)
(* Program constants.                                                      *)
(***************************************************************************)
DEFAULT_RETRIES == 5
DEFAULT_BACKOFF_FACTOR == 1
DEFAULT_TIMEOUT == 10

\* Python's None for a URL / link (page URLs are 1..N).
None == 0

VARIABLES
    \* ---- fetch_paginated_records / get_deputados ----
    caller,          \* "direct" | "get_deputados": who called fetch_paginated_records
    retries,         \* parameter retries
    backoff_factor,  \* parameter backoff_factor
    sizes,           \* the server's page chain: sizes[p] = number of records of page p
    next_page,       \* local next_page (None when no page is left)
    attempt,         \* loop variable of `for attempt in range(retries)`
    all_records,     \* local accumulator
    sleeps,          \* the time.sleep calls made so far, in order
    reqs,            \* the requests.get calls made so far: [url, ok]
    spins,           \* iterations of `while next_page` that ran an empty for loop
    fpc,             \* "idle" | "fetching" | "returned" | "raised"
    dep_result,      \* what get_deputados returned: [none, recs]
    \* ---- fetch_records_by_ids ----
    list_ids,        \* parameter list_ids
    id_pos,          \* position of the for loop in list_ids
    id_records,      \* local all_records of fetch_records_by_ids
    id_reqs,         \* the requests.get calls made so far: [id, ok]
    ipc,             \* "idle" | "fetching" | "returned"
    \* ---- main / run_pipeline (igtao_api_deputados.py) ----
    glob,            \* what config_path.glob('*.json') lists, in its order
    cfg,             \* the content of each configuration file
    config_files,    \* main's list of configuration files
    idx,             \* position of main's for loop in config_files
    cached_records,  \* main's cached_records: [none, recs]
    attempted,       \* the files run_pipeline was called for, in order
    saved,           \* the tables save_to_json wrote a file for
    crash,           \* the exception that ended the run, "none" if none
    mpc,             \* "idle" | "start" | "loop" | "get_deputados" |
                     \* "fetch_by_ids" | "finished" | "crashed" | "exit1"
    \* ---- APIClient.fetch_in_batches / fetch_data ----
    items,           \* parameter items
    batch_size,      \* parameter batch_size
    batch_start,     \* loop variable i of `for i in range(0, len(items), batch_size)`
    task,            \* per item: "none" | "pending" | "inflight" | "value" |
                     \* "nil" (logged failure, None returned) | "raised"
    results,         \* local results
    bpc,             \* "idle" | "loop" | "gather" | "returned" | "raised"
    \* ---- build_url ----
    impl,            \* which build_url is called
    template,        \* base_url + url of the endpoint, as tokens
    path_params,     \* argument path_params: [none, map]
    url_result,      \* [raised, url]
    upc,             \* "idle" | "call" | "done" | "done_again"
    entry,           \* the function called: "build_url" | "get_url_with_query_params" |
                     \* "get_deputados" | "get_despesas_deputado" (APIClient)
    query_parameters,\* endpoint[0]['query_parameters'] of the configuration
    query_params,    \* argument query_params (keyword arguments of the
                     \* APIClient methods): [none, pairs]
    \* ---- main.py: transform_data / update_delta_table ----
    schema_fields,   \* the names of the fields of the schema, in order
    dados,           \* json_data['dados']: a sequence of records
    arrow_data,      \* the rows transform_data returned
    delta_exists,    \* os.path.exists(delta_table_path)
    delta_rows,      \* the rows stored in the Delta table, in order
    ncalls,          \* calls of update_delta_table so far
    prev_dados,      \* the JSON records of the call before the current one
    dpc,             \* "idle" | "transform" | "transformed" | "table" |
                     \* "returned" | "raised"
    \* ---- the fetcher under the page-counter convention ----
    page_size,       \* the requested page size, a positive integer
    page_number,     \* the page the next request asks for
    page_attempt,    \* failed attempts on the current page
    page_counts,     \* the record count of every page returned, in order
    page_reqs,       \* the page number of every request issued, in order
    ppc,             \* "idle" | "FETCHING_PAGE" | "DONE" | "FAILED"
    \* ---- one HTTP GET and its timeout ----
    site,            \* the function that issues the GET
    timeout,         \* the timeout the GET runs under, None if it has none
    server,          \* "answers" | "silent" (it never sends a response)
    elapsed,         \* seconds the GET has been waiting
    gpc              \* "idle" | "call" | "waiting" | "response" | "failure"

fetchVars == <<caller, retries, backoff_factor, sizes, next_page, attempt,
               all_records, sleeps, reqs, spins, fpc, dep_result>>

idVars == <<list_ids, id_pos, id_records, id_reqs, ipc>>

pipeVars == <<glob, cfg, config_files, idx, cached_records, attempted, saved,
              crash, mpc>>

clientVars == <<items, batch_size, batch_start, task, results, bpc>>

urlVars == <<impl, template, path_params, url_result, upc, entry,
            query_parameters, query_params>>

sinkVars == <<schema_fields, dados, arrow_data, delta_exists, delta_rows,
             ncalls, prev_dados, dpc>>

\* What the fetch, pipeline, client and URL code never touches.
pageVars == <<page_size, page_number, page_attempt, page_counts, page_reqs, ppc>>

getVars == <<site, timeout, server, elapsed, gpc>>

auxVars == <<sinkVars, pageVars, getVars>>

\* What the synchronous fetch and pipeline code never touches.
otherVars == <<clientVars, urlVars, auxVars>>

vars == <<fetchVars, idVars, pipeVars, clientVars, urlVars, auxVars>>

(***************************************************************************)
(* The remote API: a chain of N pages, page p at URL p.                    *)
(***************************************************************************)
NPages(sz) == Len(sz)

\* The record with index i of page p (a deputado, identified by its id).
Rec(p, i) == [id |-> (p - 1) * (MaxPageLen + 1) + i]

\* The links array of page p: self, next (only when a page follows), first, last.
Links(sz, p) ==
    <<[rel |-> "self", href |-> p]>>
    \o (IF p < NPages(sz) THEN <<[rel |-> "next", href |-> p + 1]>> ELSE <<>>)
    \o <<[rel |-> "first", href |-> 1], [rel |-> "last", href |-> NPages(sz)]>>

\* The JSON body of page p.
Page(sz, p) == [dados |-> [i \in 1..sz[p] |-> Rec(p, i)], links |-> Links(sz, p)]

\* What one GET may produce: a transport error, or a response with a status.
Responses ==
    {[err |-> TRUE, status |-> 0],
     [err |-> FALSE, status |-> 200],
     [err |-> FALSE, status |-> 404],
     [err |-> FALSE, status |-> 503]}

\* requests.get raising, or response.raise_for_status() raising (4xx, 5xx).
RaisesRequestException(resp) ==
    resp.err \/ (resp.status >= 400 /\ resp.status < 600)

(***************************************************************************)
(* fetch_paginated_records                                                 *)
(***************************************************************************)
\* Variant: the href of the first link, whatever its rel.
FirstHref(links) == IF links = <<>> THEN None ELSE Head(links).href

RECURSIVE FirstNext(_)
\* next((link['href'] for link in links if link['rel'] == 'next'), None)
FirstNext(links) ==
    IF links = <<>> THEN None
    ELSE IF Head(links).rel = "next" THEN Head(links).href
    ELSE FirstNext(Tail(links))

\* if next_page_link: next_page = next_page_link else: next_page = None
NextPageAfter(data) ==
    LET next_page_link == FirstNext(data.links)
    IN  IF next_page_link # None THEN next_page_link ELSE None

\* Variant: the page is put in front of the accumulator.
ExtendInFront(acc, records) == records \o acc

\* Variant: the page replaces the accumulator.
ExtendReplace(acc, records) == records

\* all_records.extend(records)
Extend(acc, records) == acc \o records

RECURSIVE Pow2(_)
Pow2(k) == IF k = 0 THEN 1 ELSE 2 * Pow2(k - 1)

\* Variant: a product where the code has a power.
SleepTimeLinear(bf, k) == bf * (2 * k)

\* sleep_time = backoff_factor * (2**attempt)
SleepTime(bf, k) == bf * Pow2(k)

\* Variant: one retry too many.
MayRetryOffByOne(k, r) == k < r

\* if attempt < retries - 1: (sleep and retry) else: (raise)
MayRetry(k, r) == k < r - 1

\* get_deputados: return records / except Exception: return None
NoResult == [none |-> TRUE, recs |-> <<>>]
Returned(recs) == [none |-> FALSE, recs |-> recs]

\* Variant: the attempt counter is shared by all pages (never reset).
AttemptSucceedsSharedCounter(resp) ==
    /\ ~RaisesRequestException(resp)
    /\ LET data == Page(sizes, next_page)
           acc == Extend(all_records, data.dados)
           np == NextPageAfter(data)
       IN  /\ all_records' = acc
           /\ next_page' = np
           /\ attempt' = attempt
           /\ reqs' = Append(reqs, [url |-> next_page, ok |-> TRUE])
           /\ IF np = None
              THEN /\ fpc' = "returned"
                   /\ dep_result' = IF caller = "get_deputados"
                                    THEN Returned(acc) ELSE dep_result
              ELSE UNCHANGED <<fpc, dep_result>>
    /\ UNCHANGED <<caller, retries, backoff_factor, sizes, sleeps, spins>>

\* The attempt succeeds: extend the accumulator, follow the next link.
AttemptSucceeds(resp) ==
    /\ ~RaisesRequestException(resp)
    /\ LET data == Page(sizes, next_page)
           acc == Extend(all_records, data.dados)
           np == NextPageAfter(data)
       IN  /\ all_records' = acc
           /\ next_page' = np
           /\ attempt' = 0
           /\ reqs' = Append(reqs, [url |-> next_page, ok |-> TRUE])
           /\ IF np = None
              THEN /\ fpc' = "returned"
                   /\ dep_result' = IF caller = "get_deputados"
                                    THEN Returned(acc) ELSE dep_result
              ELSE UNCHANGED <<fpc, dep_result>>
    /\ UNCHANGED <<caller, retries, backoff_factor, sizes, sleeps, spins>>

\* Variant: a failed attempt keeps what the body held before it failed.
AttemptFailsKeepsPartial(resp) ==
    /\ RaisesRequestException(resp)
    /\ reqs' = Append(reqs, [url |-> next_page, ok |-> FALSE])
    /\ all_records' = IF resp.err THEN all_records
                      ELSE Extend(all_records, Page(sizes, next_page).dados)
    /\ IF MayRetry(attempt, retries)
       THEN /\ sleeps' = Append(sleeps, SleepTime(backoff_factor, attempt))
            /\ attempt' = attempt + 1
            /\ UNCHANGED <<fpc, dep_result>>
       ELSE /\ fpc' = "raised"
            /\ dep_result' = IF caller = "get_deputados"
                             THEN NoResult ELSE dep_result
            /\ UNCHANGED <<sleeps, attempt>>
    /\ UNCHANGED <<caller, retries, backoff_factor, sizes, next_page, spins>>

\* The attempt fails: sleep and retry, or re-raise on the last attempt.
AttemptFails(resp) ==
    /\ RaisesRequestException(resp)
    /\ reqs' = Append(reqs, [url |-> next_page, ok |-> FALSE])
    /\ IF MayRetry(attempt, retries)
       THEN /\ sleeps' = Append(sleeps, SleepTime(backoff_factor, attempt))
            /\ attempt' = attempt + 1
            /\ UNCHANGED <<fpc, dep_result>>
       ELSE /\ fpc' = "raised"
            /\ dep_result' = IF caller = "get_deputados"
                             THEN NoResult ELSE dep_result
            /\ UNCHANGED <<sleeps, attempt>>
    /\ UNCHANGED <<caller, retries, backoff_factor, sizes, next_page,
                   all_records, spins>>

\* One iteration of the for loop: requests.get(next_page, timeout=...).
Attempt ==
    /\ fpc = "fetching"
    /\ next_page # None
    /\ attempt < retries
    /\ \E resp \in Responses : AttemptSucceeds(resp) \/ AttemptFails(resp)
    /\ UNCHANGED <<idVars, pipeVars, otherVars>>

\* retries = 0: range(0) is empty, the while loop runs again with no request.
EmptyForLoop ==
    /\ fpc = "fetching"
    /\ next_page # None
    /\ retries = 0
    /\ spins < MaxSpin
    /\ spins' = spins + 1
    /\ UNCHANGED <<caller, retries, backoff_factor, sizes, next_page, attempt,
                   all_records, sleeps, reqs, fpc, dep_result>>
    /\ UNCHANGED <<idVars, pipeVars, otherVars>>

\* The state of the locals on entry: all_records = [], next_page = url.
FetchEntry(c, r, bf, sz) ==
    /\ caller = c
    /\ retries = r
    /\ backoff_factor = bf
    /\ sizes = sz
    /\ next_page = 1
    /\ attempt = 0
    /\ all_records = <<>>
    /\ sleeps = <<>>
    /\ reqs = <<>>
    /\ spins = 0
    /\ fpc = "fetching"
    /\ dep_result = NoResult

(***************************************************************************)
(* fetch_records_by_ids                                                    *)
(***************************************************************************)
\* The JSON body of the detail request for one id.
Detail(id) == [dados |-> [id |-> id]]

\* if response.status_code == HTTPStatus.OK: all_records.append(data)
\* else: log.error / except requests.RequestException: log.error
KeepsRecord(resp) == ~resp.err /\ resp.status = 200

\* The call: all_records = [], the for loop at the first id.
ByIdsCall(ids) ==
    /\ list_ids' = ids
    /\ id_pos' = 1
    /\ id_records' = <<>>
    /\ id_reqs' = <<>>
    /\ ipc' = IF ids = <<>> THEN "returned" ELSE "fetching"

ByIdsIdle ==
    /\ list_ids = <<>>
    /\ id_pos = 1
    /\ id_records = <<>>
    /\ id_reqs = <<>>
    /\ ipc = "idle"

\* Variant: an id whose request failed is requested again.
FetchByIdRetrying ==
    /\ ipc = "fetching"
    /\ id_pos <= Len(list_ids)
    /\ \E resp \in Responses :
         /\ id_reqs' = Append(id_reqs, [id |-> list_ids[id_pos],
                                        ok |-> KeepsRecord(resp)])
         /\ id_records' = IF KeepsRecord(resp)
                          THEN Append(id_records, Detail(list_ids[id_pos]))
                          ELSE id_records
         /\ id_pos' = IF KeepsRecord(resp) THEN id_pos + 1 ELSE id_pos
    /\ ipc' = IF id_pos' > Len(list_ids) THEN "returned" ELSE "fetching"
    /\ UNCHANGED list_ids
    /\ UNCHANGED <<fetchVars, pipeVars, otherVars>>

\* One iteration of `for id_value in list_ids`: one requests.get.
FetchById ==
    /\ ipc = "fetching"
    /\ id_pos <= Len(list_ids)
    /\ \E resp \in Responses :
         /\ id_reqs' = Append(id_reqs, [id |-> list_ids[id_pos],
                                        ok |-> KeepsRecord(resp)])
         /\ id_records' = IF KeepsRecord(resp)
                          THEN Append(id_records, Detail(list_ids[id_pos]))
                          ELSE id_records
    /\ id_pos' = id_pos + 1
    /\ ipc' = IF id_pos' > Len(list_ids) THEN "returned" ELSE "fetching"
    /\ UNCHANGED list_ids
    /\ UNCHANGED <<fetchVars, pipeVars, otherVars>>

(***************************************************************************)
(* main / run_pipeline of igtao_api_deputados.py                           *)
(***************************************************************************)
DEPUTADOS_JSON == "config/deputados.json"
DEPUTADOS_POR_ID_JSON == "config/deputados_por_id.json"
OUTRA_JSON == "config/outra.json"
Files == {DEPUTADOS_JSON, DEPUTADOS_POR_ID_JSON, OUTRA_JSON}

\* The table each configuration file declares.
TableOf(f) ==
    IF f = DEPUTADOS_JSON THEN "deputados"
    ELSE IF f = DEPUTADOS_POR_ID_JSON THEN "deputados_por_id"
    ELSE "outra"

required_keys == <<"table", "description", "full_table_name", "active", "endpoint">>
RequiredKeySet == {required_keys[i] : i \in 1..Len(required_keys)}

\* validate_config: raises ValueError at the first required key that is missing.
validate_config(config) == \A i \in 1..Len(required_keys) : required_keys[i] \in config.keys

\* config.get('active', True)
IsActive(config) == IF "active" \in config.keys THEN config.active ELSE TRUE

\* `if not records`: None and the empty list are both falsy.
Falsy(r) == r.none \/ r.recs = <<>>

\* The contents a configuration file may have.
Configs(f) ==
    {[loadable |-> TRUE, keys |-> RequiredKeySet, table |-> TableOf(f), active |-> a] :
        a \in BOOLEAN}
    \cup {[loadable |-> TRUE, keys |-> RequiredKeySet \ {k}, table |-> TableOf(f),
           active |-> TRUE] : k \in {"active", "endpoint"}}
    \cup {[loadable |-> FALSE, keys |-> {}, table |-> TableOf(f), active |-> TRUE]}

\* The listings of the config directory: the files present, in any order.
Listings ==
    {s \in UNION {[1..n -> Files] : n \in 0..Cardinality(Files)} :
        \A i, j \in 1..Len(s) : i # j => s[i] # s[j]}

NotDeputadosJson(f) == f # DEPUTADOS_JSON

\* if 'config/deputados.json' in config_files: remove it, insert it at 0.
Prioritize(files) ==
    IF \E i \in 1..Len(files) : files[i] = DEPUTADOS_JSON
    THEN <<DEPUTADOS_JSON>> \o SelectSeq(files, NotDeputadosJson)
    ELSE files

\* The for loop of main moves to the next file, or main returns.
LoopPc(i, files) == IF i > Len(files) THEN "finished" ELSE "loop"

\* main up to the for loop: list_config_files, the reordering, the cache.
MainStart ==
    /\ mpc = "start"
    /\ IF glob = <<>>
       THEN /\ mpc' = "exit1"
            /\ crash' = "FileNotFoundError"
            /\ UNCHANGED <<config_files, idx, cached_records>>
       ELSE /\ config_files' = Prioritize(glob)
            /\ cached_records' = NoResult
            /\ idx' = 1
            /\ mpc' = "loop"
            /\ UNCHANGED crash
    /\ UNCHANGED <<glob, cfg, attempted, saved>>
    /\ UNCHANGED <<fetchVars, idVars, otherVars>>

\* The file and configuration of the current iteration of main's loop.
CurFile == config_files[idx]
CurCfg == cfg[CurFile]
InLoop == mpc = "loop" /\ idx <= Len(config_files)

\* run_pipeline returns value r to main, which stores it in cached_records.
ReturnToMain(r) ==
    /\ cached_records' = r
    /\ idx' = idx + 1
    /\ mpc' = LoopPc(idx + 1, config_files)

\* load_config_file raises: logged, run_pipeline returns None.
RunUnloadable ==
    /\ InLoop
    /\ ~CurCfg.loadable
    /\ attempted' = Append(attempted, CurFile)
    /\ ReturnToMain(NoResult)
    /\ UNCHANGED <<glob, cfg, config_files, saved, crash>>
    /\ UNCHANGED <<fetchVars, idVars, otherVars>>

\* validate_config raises ValueError: nothing in run_pipeline or main catches it.
RunInvalid ==
    /\ InLoop
    /\ CurCfg.loadable
    /\ ~validate_config(CurCfg)
    /\ attempted' = Append(attempted, CurFile)
    /\ crash' = "ValueError"
    /\ mpc' = "crashed"
    /\ UNCHANGED <<glob, cfg, config_files, idx, cached_records, saved>>
    /\ UNCHANGED <<fetchVars, idVars, otherVars>>

RunnableCfg == InLoop /\ CurCfg.loadable /\ validate_config(CurCfg)

\* active is false: the function falls through and returns None.
RunInactive ==
    /\ RunnableCfg
    /\ ~IsActive(CurCfg)
    /\ attempted' = Append(attempted, CurFile)
    /\ ReturnToMain(NoResult)
    /\ UNCHANGED <<glob, cfg, config_files, saved, crash>>
    /\ UNCHANGED <<fetchVars, idVars, otherVars>>

\* table deputados: get_deputados is called unless cached records are there.
RunDeputados ==
    /\ RunnableCfg
    /\ IsActive(CurCfg)
    /\ CurCfg.table = "deputados"
    /\ attempted' = Append(attempted, CurFile)
    /\ IF Falsy(cached_records)
       THEN /\ mpc' = "get_deputados"
            /\ caller' = "get_deputados"
            /\ retries' = DEFAULT_RETRIES
            /\ backoff_factor' = DEFAULT_BACKOFF_FACTOR
            /\ next_page' = 1
            /\ attempt' = 0
            /\ all_records' = <<>>
            /\ sleeps' = <<>>
            /\ reqs' = <<>>
            /\ spins' = 0
            /\ fpc' = "fetching"
            /\ dep_result' = NoResult
            /\ UNCHANGED <<sizes, idx, cached_records, saved>>
       ELSE /\ saved' = saved \cup {CurCfg.table}
            /\ ReturnToMain(cached_records)
            /\ UNCHANGED fetchVars
    /\ UNCHANGED <<glob, cfg, config_files, crash>>
    /\ UNCHANGED <<idVars, otherVars>>

\* get_deputados returned: save_to_json(records), return records.
AfterGetDeputados ==
    /\ mpc = "get_deputados"
    /\ fpc \in {"returned", "raised"}
    /\ saved' = saved \cup {CurCfg.table}
    /\ ReturnToMain(dep_result)
    /\ UNCHANGED <<glob, cfg, config_files, attempted, crash>>
    /\ UNCHANGED <<fetchVars, idVars, otherVars>>

\* list_ids = [deputado['id'] for deputado in records]
IdsOf(recs) == [i \in 1..Len(recs) |-> recs[i].id]

\* table deputados_por_id: the ID list comes from the cached records;
\* iterating None raises TypeError, which nothing catches.
RunDeputadosPorId ==
    /\ RunnableCfg
    /\ IsActive(CurCfg)
    /\ CurCfg.table = "deputados_por_id"
    /\ attempted' = Append(attempted, CurFile)
    /\ IF cached_records.none
       THEN /\ crash' = "TypeError"
            /\ mpc' = "crashed"
            /\ UNCHANGED idVars
       ELSE /\ mpc' = "fetch_by_ids"
            /\ ByIdsCall(IdsOf(cached_records.recs))
            /\ UNCHANGED crash
    /\ UNCHANGED <<glob, cfg, config_files, idx, cached_records, saved>>
    /\ UNCHANGED <<fetchVars, otherVars>>

\* fetch_records_by_ids returned: save_to_json(records_id); the function
\* ends without a return statement, so main receives None.
AfterFetchByIds ==
    /\ mpc = "fetch_by_ids"
    /\ ipc = "returned"
    /\ saved' = saved \cup {CurCfg.table}
    /\ ReturnToMain(NoResult)
    /\ UNCHANGED <<glob, cfg, config_files, attempted, crash>>
    /\ UNCHANGED <<fetchVars, idVars, otherVars>>

\* any other table: warning, return None.
RunUnknownTable ==
    /\ RunnableCfg
    /\ IsActive(CurCfg)
    /\ CurCfg.table \notin {"deputados", "deputados_por_id"}
    /\ attempted' = Append(attempted, CurFile)
    /\ ReturnToMain(NoResult)
    /\ UNCHANGED <<glob, cfg, config_files, saved, crash>>
    /\ UNCHANGED <<fetchVars, idVars, otherVars>>

(***************************************************************************)
(* main of igtao_api.py: no validate_config, no test of 'active', no       *)
(* try around the loading; its positions are the mpc values "api_...".     *)
(***************************************************************************)
\* config_table_path = list_config_files(): FileNotFoundError when empty.
ApiMainStart ==
    /\ mpc = "api_start"
    /\ IF glob = <<>>
       THEN /\ mpc' = "crashed"
            /\ crash' = "FileNotFoundError"
            /\ UNCHANGED <<config_files, idx>>
       ELSE /\ config_files' = glob
            /\ idx' = 1
            /\ mpc' = "api_loop"
            /\ UNCHANGED crash
    /\ UNCHANGED <<glob, cfg, cached_records, attempted, saved>>
    /\ UNCHANGED <<fetchVars, idVars, otherVars>>

ApiInLoop == mpc = "api_loop" /\ idx <= Len(config_files)

\* The for loop of main moves to the next file, or main returns.
ApiLoopPc(i, files) == IF i > Len(files) THEN "finished" ELSE "api_loop"

\* load_config_file(file) raises: nothing catches it.
ApiUnloadable ==
    /\ ApiInLoop
    /\ ~CurCfg.loadable
    /\ attempted' = Append(attempted, CurFile)
    /\ crash' = "JSONDecodeError"
    /\ mpc' = "crashed"
    /\ UNCHANGED <<glob, cfg, config_files, idx, cached_records, saved>>
    /\ UNCHANGED <<fetchVars, idVars, otherVars>>

\* A table other than deputados_por_id: the iteration does nothing.
ApiOtherTable ==
    /\ ApiInLoop
    /\ CurCfg.loadable
    /\ CurCfg.table # "deputados_por_id"
    /\ attempted' = Append(attempted, CurFile)
    /\ idx' = idx + 1
    /\ mpc' = ApiLoopPc(idx + 1, config_files)
    /\ UNCHANGED <<glob, cfg, config_files, cached_records, saved, crash>>
    /\ UNCHANGED <<fetchVars, idVars, otherVars>>

\* table deputados_por_id: config/deputados.json is loaded and
\* get_deputados called with it; get_url_with_query_params reads
\* config_data['endpoint'] outside any try.
ApiDeputadosPorId ==
    /\ ApiInLoop
    /\ CurCfg.loadable
    /\ CurCfg.table = "deputados_por_id"
    /\ attempted' = Append(attempted, CurFile)
    /\ IF ~cfg[DEPUTADOS_JSON].loadable
       THEN /\ crash' = "FileNotFoundError"
            /\ mpc' = "crashed"
            /\ UNCHANGED fetchVars
       ELSE IF "endpoint" \notin cfg[DEPUTADOS_JSON].keys
       THEN /\ crash' = "KeyError"
            /\ mpc' = "crashed"
            /\ UNCHANGED fetchVars
       ELSE /\ mpc' = "api_get_deputados"
            /\ caller' = "get_deputados"
            /\ retries' = DEFAULT_RETRIES
            /\ backoff_factor' = DEFAULT_BACKOFF_FACTOR
            /\ next_page' = 1
            /\ attempt' = 0
            /\ all_records' = <<>>
            /\ sleeps' = <<>>
            /\ reqs' = <<>>
            /\ spins' = 0
            /\ fpc' = "fetching"
            /\ dep_result' = NoResult
            /\ UNCHANGED <<sizes, crash>>
    /\ UNCHANGED <<glob, cfg, config_files, idx, cached_records, saved>>
    /\ UNCHANGED <<idVars, otherVars>>

\* get_deputados returned: `for deputado in records` raises TypeError on
\* None; fetch_records_by_ids reads config['endpoint'] for the first id.
ApiAfterGetDeputados ==
    /\ mpc = "api_get_deputados"
    /\ fpc \in {"returned", "raised"}
    /\ IF dep_result.none
       THEN /\ crash' = "TypeError"
            /\ mpc' = "crashed"
            /\ UNCHANGED idVars
       ELSE IF dep_result.recs # <<>> /\ "endpoint" \notin CurCfg.keys
       THEN /\ crash' = "KeyError"
            /\ mpc' = "crashed"
            /\ UNCHANGED idVars
       ELSE /\ mpc' = "api_fetch_by_ids"
            /\ ByIdsCall(IdsOf(dep_result.recs))
            /\ UNCHANGED crash
    /\ UNCHANGED <<glob, cfg, config_files, idx, cached_records, attempted, saved>>
    /\ UNCHANGED <<fetchVars, otherVars>>

\* fetch_records_by_ids returned: the records are printed, no file is written.
ApiAfterFetchByIds ==
    /\ mpc = "api_fetch_by_ids"
    /\ ipc = "returned"
    /\ idx' = idx + 1
    /\ mpc' = ApiLoopPc(idx + 1, config_files)
    /\ UNCHANGED <<glob, cfg, config_files, cached_records, attempted, saved, crash>>
    /\ UNCHANGED <<fetchVars, idVars, otherVars>>

(***************************************************************************)
(* APIClient.fetch_data and APIClient.fetch_in_batches                     *)
(***************************************************************************)
\* How one session.get of fetch_data may end.
Outcomes == {"ok", "http_error", "invalid", "transport_error"}

\* fetch_data: the value it returns, or the exception that leaves it.  Only
\* ClientResponseError (raise_for_status) and ValidationError are caught.
FetchDataEnd(outcome) ==
    IF outcome = "ok" THEN "value"
    ELSE IF outcome \in {"http_error", "invalid"} THEN "nil"
    ELSE "raised"

\* Variant: the slice takes one item more.
BatchRangeInclusive(i, n, bs) == {j \in 1..n : i < j /\ j <= i + bs + 1}

\* The positions (1-based) of batch = items[i : i + batch_size].
BatchRange(i, n, bs) == {j \in 1..n : i < j /\ j <= i + bs}
CurBatch == BatchRange(batch_start, Len(items), batch_size)

\* Variant: the join returns as soon as one task of the batch has its result.
SomeTaskReturned(tk, batch) == \E j \in batch : tk[j] \in {"value", "nil"}

\* asyncio.gather returns once every task of the batch has returned.
AllTasksReturned(tk, batch) == \A j \in batch : tk[j] \in {"value", "nil"}

\* Entry of fetch_in_batches up to the first await (or to its return/raise):
\* the empty-list return, range(0, len(items), batch_size), the first batch.
BatchEntry(its, bs) ==
    /\ items = its
    /\ batch_size = bs
    /\ batch_start = 0
    /\ results = <<>>
    /\ task = [j \in 1..Len(its) |-> "none"]
    /\ bpc = IF its = <<>> THEN "returned"
             ELSE IF bs = 0 THEN "raised"
             ELSE "loop"

\* tasks = [fetch_func(item) for item in batch]; asyncio.gather(*tasks)
StartBatch ==
    /\ bpc = "loop"
    /\ task' = [j \in 1..Len(items) |-> IF j \in CurBatch THEN "pending" ELSE task[j]]
    /\ bpc' = "gather"
    /\ UNCHANGED <<items, batch_size, batch_start, results>>
    /\ UNCHANGED <<fetchVars, idVars, pipeVars, urlVars, auxVars>>

\* A task runs up to its session.get: the request is in flight.
TaskStart ==
    /\ \E j \in 1..Len(items) :
         /\ task[j] = "pending"
         /\ task' = [task EXCEPT ![j] = "inflight"]
    /\ UNCHANGED <<items, batch_size, batch_start, results, bpc>>
    /\ UNCHANGED <<fetchVars, idVars, pipeVars, urlVars, auxVars>>

\* The request of a task ends and fetch_data returns or raises.
TaskEnd ==
    /\ \E j \in 1..Len(items), outcome \in Outcomes :
         /\ task[j] = "inflight"
         /\ task' = [task EXCEPT ![j] = FetchDataEnd(outcome)]
    /\ UNCHANGED <<items, batch_size, batch_start, results, bpc>>
    /\ UNCHANGED <<fetchVars, idVars, pipeVars, urlVars, auxVars>>

\* The results of the tasks at positions lo+1..hi, in order.
RECURSIVE BatchResults(_, _, _)
BatchResults(tk, lo, hi) ==
    IF hi <= lo THEN <<>>
    ELSE Append(BatchResults(tk, lo, hi - 1), [item |-> items[hi], val |-> tk[hi]])

Min(a, b) == IF a < b THEN a ELSE b

\* gather returns: results.extend(batch_results), then the next batch or return.
GatherReturns ==
    /\ bpc = "gather"
    /\ AllTasksReturned(task, CurBatch)
    /\ results' = results \o BatchResults(task, batch_start,
                                          Min(batch_start + batch_size, Len(items)))
    /\ batch_start' = batch_start + batch_size
    /\ bpc' = IF batch_start' < Len(items) THEN "loop" ELSE "returned"
    /\ UNCHANGED <<items, batch_size, task>>
    /\ UNCHANGED <<fetchVars, idVars, pipeVars, urlVars, auxVars>>

\* A task of the batch raised: gather propagates the exception at once (the
\* other tasks keep running), and fetch_in_batches ends with it.
GatherRaises ==
    /\ bpc = "gather"
    /\ \E j \in CurBatch : task[j] = "raised"
    /\ bpc' = "raised"
    /\ UNCHANGED <<items, batch_size, batch_start, task, results>>
    /\ UNCHANGED <<fetchVars, idVars, pipeVars, urlVars, auxVars>>

(***************************************************************************)
(* build_url: igtao_api.py, igtao_api_deputados.py and APIClient           *)
(***************************************************************************)
\* A URL is a sequence of tokens: literal text, or a {name} placeholder.
Lit(text) == [ph |-> FALSE, s |-> text]
Ph(name) == [ph |-> TRUE, s |-> name]

\* str(value)
Str(v) == ToString(v)

\* `if path_params:` -- None and the empty dict are falsy.
Truthy(pp) == ~pp.none /\ DOMAIN pp.map # {}

\* The names the template references.
Placeholders(url) == {url[i].s : i \in {j \in 1..Len(url) : url[j].ph}}

\* Variant: the placeholders are left as they are.
SubstituteNothing(url, m) == url

\* url.replace('{key}', str(value)) for the keys of the mapping m.
Substitute(url, m) ==
    [i \in 1..Len(url) |->
        IF url[i].ph /\ url[i].s \in DOMAIN m THEN Lit(Str(m[url[i].s])) ELSE url[i]]

UrlOk(url) == [raised |-> FALSE, url |-> url]
UrlRaised == [raised |-> TRUE, url |-> <<>>]

\* igtao_api.build_url: full_url.format(**path_params); KeyError -> ValueError.
build_url_igtao_api(full_url, pp) ==
    IF Truthy(pp)
    THEN IF Placeholders(full_url) \subseteq DOMAIN pp.map
         THEN UrlOk(Substitute(full_url, pp.map))
         ELSE UrlRaised
    ELSE UrlOk(full_url)

\* igtao_api_deputados.build_url: the KeyError is logged, full_url is kept.
build_url_igtao_api_deputados(full_url, pp) ==
    IF Truthy(pp)
    THEN IF Placeholders(full_url) \subseteq DOMAIN pp.map
         THEN UrlOk(Substitute(full_url, pp.map))
         ELSE UrlOk(full_url)
    ELSE UrlOk(full_url)

\* APIClient.build_url: one str.replace per key of path_params.
build_url_APIClient(full_url, pp) ==
    IF Truthy(pp) THEN UrlOk(Substitute(full_url, pp.map)) ELSE UrlOk(full_url)

Impls == {"igtao_api", "igtao_api_deputados", "APIClient"}

build_url(im, full_url, pp) ==
    IF im = "igtao_api" THEN build_url_igtao_api(full_url, pp)
    ELSE IF im = "igtao_api_deputados" THEN build_url_igtao_api_deputados(full_url, pp)
    ELSE build_url_APIClient(full_url, pp)

\* Python values of query parameters: None, a str, an int or a list of ints.
VNone == [kind |-> "none", s |-> "", n |-> 0, l |-> <<>>]
VStr(x) == [kind |-> "str", s |-> x, n |-> 0, l |-> <<>>]
VInt(k) == [kind |-> "int", s |-> "", n |-> k, l |-> <<>>]
VList(xs) == [kind |-> "list", s |-> "", n |-> 0, l |-> xs]

\* bool(value): None, '', 0 and [] are falsy.
PyTruthy(v) ==
    IF v.kind = "none" THEN FALSE
    ELSE IF v.kind = "str" THEN v.s # ""
    ELSE IF v.kind = "int" THEN v.n # 0
    ELSE v.l # <<>>

\* sep.join(map(str, xs))
RECURSIVE Join(_, _)
Join(sep, xs) ==
    IF xs = <<>> THEN ""
    ELSE IF Len(xs) = 1 THEN Str(xs[1])
    ELSE Join(sep, SubSeq(xs, 1, Len(xs) - 1)) \o sep \o Str(xs[Len(xs)])

\* str(value), as an f-string formats it.
PyStr(v) ==
    IF v.kind = "none" THEN "None"
    ELSE IF v.kind = "str" THEN v.s
    ELSE IF v.kind = "int" THEN Str(v.n)
    ELSE "[" \o Join(", ", v.l) \o "]"

\* ','.join(map(str, value)) if isinstance(value, list) else value
processed_value(v) == IF v.kind = "list" THEN VStr(Join(",", v.l)) ELSE v

\* A mapping is a sequence of [key, val] pairs, in its iteration order.
NoMapping == [none |-> TRUE, pairs |-> <<>>]
Mapping(pairs) == [none |-> FALSE, pairs |-> pairs]

\* `if query_params:` -- None and the empty dict are falsy.
TruthyMapping(q) == ~q.none /\ q.pairs # <<>>

\* f'{key}={value}'
PairTokens(k, text) == <<Lit(k), Lit("="), Lit(text)>>

\* "&".join(query_string)
RECURSIVE JoinAmp(_)
JoinAmp(qs) ==
    IF qs = <<>> THEN <<>>
    ELSE IF Len(qs) = 1 THEN qs[1]
    ELSE JoinAmp(SubSeq(qs, 1, Len(qs) - 1)) \o <<Lit("&")>> \o qs[Len(qs)]

\* Variant: the list is filled from the last key to the first.
RECURSIVE query_string_reversed(_)
query_string_reversed(pairs) ==
    IF pairs = <<>> THEN <<>>
    ELSE LET pv == processed_value(Head(pairs).val)
             rest == query_string_reversed(Tail(pairs))
         IN  IF PyTruthy(pv)
             THEN rest \o <<PairTokens(Head(pairs).key, PyStr(pv))>>
             ELSE rest

\* The list query_string of the synchronous build_url: one entry per key
\* whose processed value is truthy.
RECURSIVE query_string(_)
query_string(pairs) ==
    IF pairs = <<>> THEN <<>>
    ELSE LET pv == processed_value(Head(pairs).val)
             rest == query_string(Tail(pairs))
         IN  IF PyTruthy(pv)
             THEN <<PairTokens(Head(pairs).key, PyStr(pv))>> \o rest
             ELSE rest

\* igtao_api / igtao_api_deputados build_url: the query string part.
append_query_sync(url, q) ==
    IF TruthyMapping(q)
    THEN IF query_string(q.pairs) # <<>>
         THEN url \o <<Lit("?")>> \o JoinAmp(query_string(q.pairs))
         ELSE url
    ELSE url

\* APIClient.build_url: every key of query_params is written, with str(value).
append_query_APIClient(url, q) ==
    IF TruthyMapping(q)
    THEN url \o <<Lit("?")>>
         \o JoinAmp([i \in 1..Len(q.pairs) |->
                        PairTokens(q.pairs[i].key, PyStr(q.pairs[i].val))])
    ELSE url

append_query(im, url, q) ==
    IF im = "APIClient" THEN append_query_APIClient(url, q)
    ELSE append_query_sync(url, q)

ValueIsNotNone(p) == p.val.kind # "none"

\* {name: default for param in query_parameters if default is not None},
\* passed as None when it is empty (also the dict comprehension of
\* APIClient.get_deputados).
WithoutNone(pairs) ==
    LET d == SelectSeq(pairs, ValueIsNotNone)
    IN  IF d # <<>> THEN Mapping(d) ELSE NoMapping

\* Variant: the configured defaults are merged under the caller's parameters.
query_argument_merged(e, defaults, q) ==
    IF e = "build_url"
    THEN LET given == IF q.none THEN <<>> ELSE q.pairs
             missing == SelectSeq(defaults,
                            LAMBDA d : \A k \in 1..Len(given) : given[k].key # d.key)
         IN  Mapping(missing \o given)
    ELSE IF e = "get_despesas_deputado" THEN q
    ELSE IF e = "get_deputados" THEN WithoutNone(q.pairs)
    ELSE WithoutNone(defaults)

\* The query_params that reach build_url: the caller's argument;
\* get_url_with_query_params passes the configured defaults,
\* get_deputados its non-None keyword arguments, get_despesas_deputado
\* the dict {'ano': ano, 'mes': mes} as it is.
query_argument(e, defaults, q) ==
    IF e = "build_url" \/ e = "get_despesas_deputado" THEN q
    ELSE IF e = "get_deputados" THEN WithoutNone(q.pairs)
    ELSE WithoutNone(defaults)

\* Only a direct call of build_url passes path_params.
path_argument(e, pp) == IF e = "build_url" THEN pp ELSE [none |-> TRUE, map |-> <<>>]

\* The whole call: the path substitution, then the query string.
build_full_url(e, im, full_url, pp, defaults, q) ==
    LET r == build_url(im, full_url, path_argument(e, pp))
    IN  IF r.raised THEN r
        ELSE UrlOk(append_query(im, r.url, query_argument(e, defaults, q)))

\* Variant: the call uses up the configured query_parameters.
BuildUrlDrainsDefaults ==
    /\ upc = "call"
    /\ url_result' = build_full_url(entry, impl, template, path_params,
                                    query_parameters, query_params)
    /\ upc' = "done"
    /\ query_parameters' = <<>>
    /\ UNCHANGED <<impl, template, path_params, entry, query_params>>
    /\ UNCHANGED <<fetchVars, idVars, pipeVars, clientVars, auxVars>>

\* One call of build_url, directly or through one of its callers.
BuildUrl ==
    /\ upc = "call"
    /\ url_result' = build_full_url(entry, impl, template, path_params,
                                    query_parameters, query_params)
    /\ upc' = "done"
    /\ UNCHANGED <<impl, template, path_params, entry, query_parameters, query_params>>
    /\ UNCHANGED <<fetchVars, idVars, pipeVars, clientVars, auxVars>>

\* The same call once more, with the same arguments and configuration.
BuildUrlAgain ==
    /\ upc = "done"
    /\ url_result' = build_full_url(entry, impl, template, path_params,
                                    query_parameters, query_params)
    /\ upc' = "done_again"
    /\ UNCHANGED <<impl, template, path_params, entry, query_parameters, query_params>>
    /\ UNCHANGED <<fetchVars, idVars, pipeVars, clientVars, auxVars>>

(***************************************************************************)
(* main.py: transform_data, create_arrow_table, update_delta_table.        *)
(* delta.py holds a copy of update_delta_table with the nine fields of the *)
(* schema written out and the same test against the stored ids.            *)
(* A record is a function from the names of its keys to its values; a     *)
(* value is a positive number, None stands for Python's None.              *)
(***************************************************************************)
\* Variant: a field the record lacks is left out of the row.
transform_data_omitting(json_dados, fields) ==
    [i \in 1..Len(json_dados) |->
        LET present == SelectSeq(fields, LAMBDA f : f \in DOMAIN json_dados[i])
        IN  [k \in 1..Len(present) |-> json_dados[i][present[k]]]]

\* row = [item.get(field.name, None) for field in schema_fields], per item.
transform_data(json_dados, fields) ==
    [i \in 1..Len(json_dados) |->
        [k \in 1..Len(fields) |->
            IF fields[k] \in DOMAIN json_dados[i] THEN json_dados[i][fields[k]]
            ELSE None]]

\* columns = [pa.array(col) for col in zip(*data)]: one column per field
\* when there is a row, no column at all when data is empty;
\* pa.Table.from_arrays raises ValueError when the number of columns is not
\* the number of fields of the schema.
create_arrow_table_raises(data, fields) ==
    (IF data = <<>> THEN 0 ELSE Len(data[1])) # Len(fields)

\* delta_table.to_pandas() of an int64 column: a null is read back as the
\* float NaN, which is not None and equals no value; a number keeps its value.
NaN == 0 - 1
to_pandas(v) == IF v = None THEN NaN ELSE v

\* existing_ids = existing_df['id'].tolist(); 'id' is the first field.
existing_ids(rows) == {to_pandas(rows[i][1]) : i \in 1..Len(rows)}

\* Variant: every row of the batch is written.
new_data_unfiltered(data, existing) == data

\* new_data = [item for item in arrow_data if item[0] not in existing_ids]
new_data(data, existing) == SelectSeq(data, LAMBDA item : item[1] \notin existing)

\* A direct call of transform_data(json_data, schema_fields).
TransformData ==
    /\ dpc = "transform"
    /\ arrow_data' = transform_data(dados, schema_fields)
    /\ dpc' = "transformed"
    /\ UNCHANGED <<schema_fields, dados, delta_exists, delta_rows, ncalls, prev_dados>>
    /\ UNCHANGED <<fetchVars, idVars, pipeVars, clientVars, urlVars, pageVars, getVars>>

\* update_delta_table up to the test of os.path.exists: the JSON file is
\* loaded, transformed and made a table, which raises for an empty file.
UpdateLoad(json_dados) ==
    /\ dpc \in {"idle", "returned", "raised"}
    /\ ncalls < MaxCalls
    /\ ncalls' = ncalls + 1
    /\ prev_dados' = dados
    /\ dados' = json_dados
    /\ arrow_data' = transform_data(json_dados, schema_fields)
    /\ dpc' = IF create_arrow_table_raises(transform_data(json_dados, schema_fields),
                                          schema_fields)
              THEN "raised" ELSE "table"
    /\ UNCHANGED <<schema_fields, delta_exists, delta_rows>>
    /\ UNCHANGED <<fetchVars, idVars, pipeVars, clientVars, urlVars, pageVars, getVars>>

\* The table exists: the rows whose id is not stored are appended.
UpdateAppend ==
    /\ dpc = "table"
    /\ delta_exists
    /\ delta_rows' = delta_rows \o new_data(arrow_data, existing_ids(delta_rows))
    /\ dpc' = "returned"
    /\ UNCHANGED <<schema_fields, dados, arrow_data, delta_exists, ncalls, prev_dados>>
    /\ UNCHANGED <<fetchVars, idVars, pipeVars, clientVars, urlVars, pageVars, getVars>>

\* The table does not exist: it is created from the whole batch.
UpdateCreate ==
    /\ dpc = "table"
    /\ ~delta_exists
    /\ delta_exists' = TRUE
    /\ delta_rows' = arrow_data
    /\ dpc' = "returned"
    /\ UNCHANGED <<schema_fields, dados, arrow_data, ncalls, prev_dados>>
    /\ UNCHANGED <<fetchVars, idVars, pipeVars, clientVars, urlVars, pageVars, getVars>>

(***************************************************************************)
(* The paginated fetcher under the page-counter convention: the request    *)
(* names a page number and a page size, and the fetch goes on while the    *)
(* page returned is full.                                                  *)
(***************************************************************************)
\* Variant: the fetch goes on while the page returned is not empty.
ContinuesWhileNotEmpty(count, size) == count > 0

\* Continue while the record count of the page equals the page size.
ContinuesAfter(count, size) == count = size

\* A request succeeds with a page of count records, count <= page_size; the
\* collection is finite: the page number MaxCounterPages is a short one.
PageReturned(count) ==
    /\ ppc = "FETCHING_PAGE"
    /\ count \in 0..page_size
    /\ page_number = MaxCounterPages => count < page_size
    /\ page_reqs' = Append(page_reqs, page_number)
    /\ page_counts' = Append(page_counts, count)
    /\ page_attempt' = 0
    /\ IF ContinuesAfter(count, page_size)
       THEN page_number' = page_number + 1 /\ ppc' = "FETCHING_PAGE"
       ELSE page_number' = page_number /\ ppc' = "DONE"
    /\ UNCHANGED page_size
    /\ UNCHANGED <<fetchVars, idVars, pipeVars, clientVars, urlVars, sinkVars, getVars>>

\* A request fails: the same page is asked again while attempts are left,
\* else the fetch fails.
PageFailed ==
    /\ ppc = "FETCHING_PAGE"
    /\ page_reqs' = Append(page_reqs, page_number)
    /\ IF page_attempt + 1 < MaxRetries
       THEN page_attempt' = page_attempt + 1 /\ ppc' = "FETCHING_PAGE"
       ELSE page_attempt' = page_attempt /\ ppc' = "FAILED"
    /\ UNCHANGED <<page_size, page_number, page_counts>>
    /\ UNCHANGED <<fetchVars, idVars, pipeVars, clientVars, urlVars, sinkVars, getVars>>

(***************************************************************************)
(* One HTTP GET: requests.get(next_page, timeout=DEFAULT_TIMEOUT) of        *)
(* fetch_paginated_records, requests.get(new_url) of fetch_records_by_ids, *)
(* self.session.get(url) of APIClient.fetch_data.                          *)
(***************************************************************************)
Sites == {"fetch_paginated_records", "fetch_records_by_ids", "fetch_data"}

\* ClientSession() is made with no timeout argument: aiohttp applies its
\* default ClientTimeout(total=300) to every request of the session.
SESSION_TOTAL_TIMEOUT == 300

\* The timeout a GET of the site runs under; requests.get without a
\* timeout argument waits without limit.
TimeoutOf(st) ==
    IF st = "fetch_paginated_records" THEN DEFAULT_TIMEOUT
    ELSE IF st = "fetch_records_by_ids" THEN None
    ELSE SESSION_TOTAL_TIMEOUT

\* The GET is issued.
GetIssued ==
    /\ gpc = "call"
    /\ timeout' = TimeoutOf(site)
    /\ gpc' = "waiting"
    /\ UNCHANGED <<site, server, elapsed>>
    /\ UNCHANGED <<fetchVars, idVars, pipeVars, clientVars, urlVars, sinkVars, pageVars>>

\* A second passes while the GET waits for the response.
GetWaits ==
    /\ gpc = "waiting"
    /\ IF timeout = None THEN elapsed < MaxWait ELSE elapsed < timeout
    /\ elapsed' = elapsed + 1
    /\ UNCHANGED <<site, timeout, server, gpc>>
    /\ UNCHANGED <<fetchVars, idVars, pipeVars, clientVars, urlVars, sinkVars, pageVars>>

\* The server sends its response.
GetAnswered ==
    /\ gpc = "waiting"
    /\ server = "answers"
    /\ gpc' = "response"
    /\ UNCHANGED <<site, timeout, server, elapsed>>
    /\ UNCHANGED <<fetchVars, idVars, pipeVars, clientVars, urlVars, sinkVars, pageVars>>

\* The timeout expires: the GET raises (requests.exceptions.Timeout, a
\* RequestException; asyncio.TimeoutError for the session).
GetTimesOut ==
    /\ gpc = "waiting"
    /\ timeout # None
    /\ elapsed = timeout
    /\ gpc' = "failure"
    /\ UNCHANGED <<site, timeout, server, elapsed>>
    /\ UNCHANGED <<fetchVars, idVars, pipeVars, clientVars, urlVars, sinkVars, pageVars>>

(***************************************************************************)
(* Specifications.                                                         *)
(***************************************************************************)
SinkIdle ==
    /\ schema_fields = <<>>
    /\ dados = <<>>
    /\ arrow_data = <<>>
    /\ delta_exists = FALSE
    /\ delta_rows = <<>>
    /\ ncalls = 0
    /\ prev_dados = <<>>
    /\ dpc = "idle"

PageIdle ==
    /\ page_size = 1
    /\ page_number = 1
    /\ page_attempt = 0
    /\ page_counts = <<>>
    /\ page_reqs = <<>>
    /\ ppc = "idle"

GetIdle ==
    /\ site = "fetch_paginated_records"
    /\ timeout = None
    /\ server = "answers"
    /\ elapsed = 0
    /\ gpc = "idle"

AuxIdle == SinkIdle /\ PageIdle /\ GetIdle

Chains == UNION {[1..n -> 0..MaxPageLen] : n \in 1..MaxPages}
PipeChains == UNION {[1..n -> 0..MaxPipePageLen] : n \in 1..MaxPipePages}

FetchIdle(sz) ==
    /\ caller = "direct"
    /\ retries = DEFAULT_RETRIES
    /\ backoff_factor = DEFAULT_BACKOFF_FACTOR
    /\ sizes = sz
    /\ next_page = None
    /\ attempt = 0
    /\ all_records = <<>>
    /\ sleeps = <<>>
    /\ reqs = <<>>
    /\ spins = 0
    /\ fpc = "idle"
    /\ dep_result = NoResult

PipeIdle ==
    /\ glob = <<>>
    /\ cfg = [f \in Files |-> [loadable |-> FALSE, keys |-> {},
                               table |-> TableOf(f), active |-> TRUE]]
    /\ config_files = <<>>
    /\ idx = 1
    /\ cached_records = NoResult
    /\ attempted = <<>>
    /\ saved = {}
    /\ crash = "none"
    /\ mpc = "idle"

ClientIdle ==
    /\ items = <<>>
    /\ batch_size = 1
    /\ batch_start = 0
    /\ task = <<>>
    /\ results = <<>>
    /\ bpc = "idle"

UrlIdle ==
    /\ impl = "igtao_api"
    /\ template = <<>>
    /\ path_params = [none |-> TRUE, map |-> <<>>]
    /\ url_result = UrlOk(<<>>)
    /\ upc = "idle"
    /\ entry = "build_url"
    /\ query_parameters = <<>>
    /\ query_params = NoMapping

\* A call of fetch_paginated_records, directly or through get_deputados
\* (which passes the default retries and backoff_factor).
InitFetch ==
    /\ \E c \in {"direct", "get_deputados"},
          r \in (0..MaxRetries) \cup {DEFAULT_RETRIES},
          bf \in 0..MaxBackoff, sz \in Chains :
           /\ c = "get_deputados" => r = DEFAULT_RETRIES /\ bf = DEFAULT_BACKOFF_FACTOR
           /\ FetchEntry(c, r, bf, sz)
    /\ ByIdsIdle
    /\ AuxIdle
    /\ PipeIdle
    /\ ClientIdle
    /\ UrlIdle

NextFetch == Attempt \/ EmptyForLoop

SpecFetch == InitFetch /\ [][NextFetch]_vars

\* A run of main over the configuration files of the config directory.
InitPipe ==
    /\ \E sz \in PipeChains : FetchIdle(sz)
    /\ ByIdsIdle
    /\ AuxIdle
    /\ glob \in Listings
    /\ cfg \in [Files -> UNION {Configs(f) : f \in Files}]
    /\ \A f \in Files : cfg[f] \in Configs(f)
    /\ \A f \in Files : (\A i \in 1..Len(glob) : glob[i] # f) => ~cfg[f].loadable
    /\ config_files = <<>>
    /\ idx = 1
    /\ cached_records = NoResult
    /\ attempted = <<>>
    /\ saved = {}
    /\ crash = "none"
    /\ mpc = "start"
    /\ ClientIdle
    /\ UrlIdle

NextPipe ==
    \/ MainStart
    \/ RunUnloadable
    \/ RunInvalid
    \/ RunInactive
    \/ RunDeputados
    \/ Attempt
    \/ AfterGetDeputados
    \/ RunDeputadosPorId
    \/ FetchById
    \/ AfterFetchByIds
    \/ RunUnknownTable

SpecPipe == InitPipe /\ [][NextPipe]_vars

\* A call of fetch_in_batches with fetch_data as the per-item function.
InitBatch ==
    /\ \E n \in 0..MaxItems, bs \in 0..MaxBatchSize :
         BatchEntry([j \in 1..n |-> j], bs)
    /\ \E sz \in {<<0>>} : FetchIdle(sz)
    /\ ByIdsIdle
    /\ AuxIdle
    /\ PipeIdle
    /\ UrlIdle

NextBatch == StartBatch \/ TaskStart \/ TaskEnd \/ GatherReturns \/ GatherRaises

SpecBatch == InitBatch /\ [][NextBatch]_vars

\* The endpoint templates and path parameters build_url is called with.
BASE_URL == Lit("https://dadosabertos.camara.leg.br")
Templates ==
    {<<BASE_URL, Lit("/api/v2/deputados")>>,
     <<BASE_URL, Lit("/api/v2/deputados/"), Ph("id")>>,
     <<BASE_URL, Lit("/api/v2/deputados/"), Ph("id"), Lit("/despesas")>>,
     <<BASE_URL, Lit("/api/v2/deputados/"), Ph("id"), Lit("/despesas/"), Ph("ano")>>}

ParamNames == {"id", "ano", "mes"}
ParamValues == 1..MaxParamValue
PathParams ==
    {[none |-> TRUE, map |-> <<>>]}
    \cup {[none |-> FALSE, map |-> m] :
            m \in UNION {[D -> ParamValues] : D \in SUBSET ParamNames}}

InitUrl ==
    /\ impl \in Impls
    /\ template \in Templates
    /\ path_params \in PathParams
    /\ url_result = UrlOk(<<>>)
    /\ upc = "call"
    /\ entry = "build_url"
    /\ query_parameters = <<>>
    /\ query_params = NoMapping
    /\ \E sz \in {<<0>>} : FetchIdle(sz)
    /\ ByIdsIdle
    /\ AuxIdle
    /\ PipeIdle
    /\ ClientIdle

NextUrl == BuildUrl

SpecUrl == InitUrl /\ [][NextUrl]_vars

\* The query parameters build_url and its callers are given.
QueryKeys == {"ordem", "itens"}
QueryValues ==
    {VNone, VStr(""), VStr("ASC"), VInt(0), VList(<<>>), VList(<<1, 2, 3>>)}
DefaultValues == {VNone, VStr("DESC"), VInt(0)}

\* The sequences of at most two pairs with distinct keys and values in V.
PairSeqs(K, V) ==
    {<<>>}
    \cup {<<[key |-> k, val |-> v]>> : k \in K, v \in V}
    \cup {<<[key |-> ks[1], val |-> v1], [key |-> ks[2], val |-> v2]>> :
            ks \in {x \in K \X K : x[1] # x[2]}, v1 \in V, v2 \in V}

QueryTemplates == {t \in Templates : Placeholders(t) \subseteq {"id"}}
DEPUTADOS_ENDPOINT == <<BASE_URL, Lit("/api/v2/deputados")>>

\* A direct call of build_url with a path and a query mapping.
InitBuildUrlCall ==
    /\ entry = "build_url"
    /\ impl \in Impls
    /\ template \in QueryTemplates
    /\ path_params \in {[none |-> TRUE, map |-> <<>>],
                         [none |-> FALSE, map |-> [k \in {"id"} |-> 1]]}
    /\ query_parameters \in PairSeqs(QueryKeys, DefaultValues)
    /\ query_params \in {NoMapping} \cup {Mapping(ps) : ps \in PairSeqs(QueryKeys, QueryValues)}

\* get_url_with_query_params(config, table_name, log) of the two scripts.
InitGetUrlCall ==
    /\ entry = "get_url_with_query_params"
    /\ impl \in {"igtao_api", "igtao_api_deputados"}
    /\ template \in QueryTemplates
    /\ path_params = [none |-> TRUE, map |-> <<>>]
    /\ query_parameters \in PairSeqs(QueryKeys, QueryValues)
    /\ query_params = NoMapping

\* APIClient.get_deputados(sigla_uf, ordem, ordenarPor, itens).
InitGetDeputadosCall ==
    /\ entry = "get_deputados"
    /\ impl = "APIClient"
    /\ template = DEPUTADOS_ENDPOINT
    /\ path_params = [none |-> TRUE, map |-> <<>>]
    /\ query_parameters = <<>>
    /\ \E uf \in {VNone, VStr(""), VStr("PB")}, o \in {VNone, VStr("ASC")},
          op \in {VNone, VStr("nome")}, it \in {VNone, VInt(0), VInt(100)} :
         query_params = Mapping(<<[key |-> "siglaUf", val |-> uf],
                                  [key |-> "ordem", val |-> o],
                                  [key |-> "ordenarPor", val |-> op],
                                  [key |-> "itens", val |-> it]>>)

\* APIClient.get_despesas_deputado(id_deputado, ano, mes).
InitGetDespesasCall ==
    /\ entry = "get_despesas_deputado"
    /\ impl = "APIClient"
    /\ \E id \in ParamValues :
         template = <<BASE_URL, Lit("/api/v2/deputados/"), Lit(Str(id)), Lit("/despesas")>>
    /\ path_params = [none |-> TRUE, map |-> <<>>]
    /\ query_parameters = <<>>
    /\ \E a \in {VNone, VInt(2024)}, m \in {VNone, VInt(0), VInt(12)} :
         query_params = Mapping(<<[key |-> "ano", val |-> a], [key |-> "mes", val |-> m]>>)

InitQuery ==
    /\ InitBuildUrlCall \/ InitGetUrlCall \/ InitGetDeputadosCall \/ InitGetDespesasCall
    /\ url_result = UrlOk(<<>>)
    /\ upc = "call"
    /\ \E sz \in {<<0>>} : FetchIdle(sz)
    /\ ByIdsIdle
    /\ AuxIdle
    /\ PipeIdle
    /\ ClientIdle

NextQuery == BuildUrl

SpecQuery == InitQuery /\ [][NextQuery]_vars

(***************************************************************************)
(* Properties of fetch_paginated_records / get_deputados.                  *)
(***************************************************************************)
\* The successful / failed requests of the log, and the requests to one URL.
IsOk(q) == q.ok
IsFailure(q) == ~q.ok
NumFailures == Len(SelectSeq(reqs, IsFailure))
RequestsTo(u) == Cardinality({i \in 1..Len(reqs) : reqs[i].url = u})
FailuresOn(u) == Cardinality({i \in 1..Len(reqs) : reqs[i].url = u /\ ~reqs[i].ok})

\* The number of failed requests at the end of the log.
RECURSIVE TrailingFailures(_)
TrailingFailures(log) ==
    IF log = <<>> \/ log[Len(log)].ok THEN 0
    ELSE 1 + TrailingFailures(SubSeq(log, 1, Len(log) - 1))

\* The records of pages 1..n of the chain, in page order.
RECURSIVE PagesUpTo(_, _)
PagesUpTo(sz, n) ==
    IF n = 0 THEN <<>>
    ELSE PagesUpTo(sz, n - 1) \o [i \in 1..sz[n] |-> Rec(n, i)]

\* C1: when all `retries` attempts on the current page fail, the call ends by
\* re-raising after exactly `retries` requests for that page, the accumulated
\* records are not returned, and get_deputados yields None.
C1_ExhaustionRaises ==
    /\ (retries >= 1 /\ next_page # None /\ FailuresOn(next_page) >= retries)
         => /\ fpc = "raised"
            /\ RequestsTo(next_page) = retries
            /\ caller = "get_deputados" => dep_result = NoResult
    /\ fpc = "raised" => FailuresOn(next_page) = retries
    /\ fpc = "returned" =>
         \A u \in 1..NPages(sizes) : FailuresOn(u) < retries

C1_Witness ==
    /\ fpc = "raised"
    /\ caller = "get_deputados"
    /\ dep_result = NoResult
    /\ Len(all_records) > 0
    /\ next_page = 2

\* C2: on a chain of N pages with no failed request, exactly N GETs are
\* issued, to pages 1..N in order, and the result is the concatenation of
\* the N pages' records in page order.
C2_ChainConcatenation ==
    (fpc = "returned" /\ NumFailures = 0) =>
        /\ Len(reqs) = NPages(sizes)
        /\ \A i \in 1..Len(reqs) : reqs[i].url = i
        /\ all_records = PagesUpTo(sizes, NPages(sizes))
        /\ caller = "get_deputados" => dep_result = Returned(all_records)

C2_Witness ==
    /\ fpc = "returned"
    /\ NumFailures = 0
    /\ NPages(sizes) = 3
    /\ Len(reqs) = 3
    /\ sizes[1] > 0 /\ sizes[2] > 0 /\ sizes[3] > 0
    /\ Len(all_records) = 3

\* C3: the retry budget is per page: the attempt counter is the number of
\* failures since the last success (0 right after a page succeeded), and
\* the call fails only after `retries` consecutive failures on one page.
C3_PerPageBudget ==
    /\ (fpc = "fetching" /\ retries >= 1) => attempt = TrailingFailures(reqs)
    /\ fpc = "raised" =>
         /\ TrailingFailures(reqs) = retries
         /\ \A i \in (Len(reqs) - retries + 1)..Len(reqs) :
                reqs[i].url = next_page /\ ~reqs[i].ok

C3_Witness ==
    /\ fpc = "fetching"
    /\ next_page = 2
    /\ attempt = 0
    /\ FailuresOn(1) = retries - 1
    /\ retries >= 2

\* The sleeps the log of requests calls for: the failure with index k on its
\* page is followed by a sleep of bf * 2^k unless it was the last attempt.
RECURSIVE ExpectedSleeps(_, _, _)
ExpectedSleeps(log, r, bf) ==
    IF log = <<>> THEN <<>>
    ELSE LET before == SubSeq(log, 1, Len(log) - 1)
             k == TrailingFailures(before)
         IN  IF log[Len(log)].ok \/ k >= r - 1
             THEN ExpectedSleeps(before, r, bf)
             ELSE Append(ExpectedSleeps(before, r, bf), bf * (2 ^ k))

\* C4: the failed attempt with index k is followed by exactly one sleep of
\* backoff_factor * 2^k, none after the last allowed attempt; with
\* backoff_factor = 0 the sleeps are 0 and the attempt counter still counts.
C4_ExponentialBackoff ==
    /\ sleeps = ExpectedSleeps(reqs, retries, backoff_factor)
    /\ backoff_factor = 0 => \A i \in 1..Len(sleeps) : sleeps[i] = 0
    /\ (fpc = "fetching" /\ retries >= 1) => attempt = TrailingFailures(reqs)
    /\ (backoff_factor = 1 /\ Len(reqs) >= 3 /\ ~reqs[1].ok /\ ~reqs[2].ok
          /\ retries >= 3) => SubSeq(sleeps, 1, 2) = <<1, 2>>

C4_Witness ==
    /\ backoff_factor = 1
    /\ retries = DEFAULT_RETRIES
    /\ sleeps = <<1, 2, 4, 8>>
    /\ fpc = "raised"

\* The pages of the successful requests of the log, in order.
OkUrls == [i \in 1..Len(SelectSeq(reqs, IsOk)) |-> SelectSeq(reqs, IsOk)[i].url]

\* C5: a page's records are appended exactly once, by the attempt that
\* succeeds; a failed attempt changes neither the accumulator nor the
\* current page URL.
C5_AppendedOnce ==
    /\ [](/\ all_records = PagesUpTo(sizes, Len(OkUrls))
          /\ \A i \in 1..Len(OkUrls) : OkUrls[i] = i)
    /\ [][(Len(reqs') > Len(reqs) /\ ~reqs'[Len(reqs')].ok)
            => (all_records' = all_records /\ next_page' = next_page)]_vars

C5_Witness ==
    /\ fpc = "returned"
    /\ NPages(sizes) = 2
    /\ FailuresOn(1) = 2
    /\ FailuresOn(2) = 1
    /\ Len(all_records) = 2

(***************************************************************************)
(* Properties of main / run_pipeline.                                      *)
(***************************************************************************)
RunEnded == mpc \in {"finished", "crashed"}
WasAttempted(f) == \E i \in 1..Len(attempted) : attempted[i] = f
AllAttempted == \A i \in 1..Len(config_files) : WasAttempted(config_files[i])
ConfigErrorSeen ==
    \E i \in 1..Len(attempted) :
        cfg[attempted[i]].loadable /\ ~validate_config(cfg[attempted[i]])

\* C6: a configuration error of one table (a required key is missing) aborts
\* only that table: every later configuration file of the run is attempted.
C6_ConfigErrorIsolated ==
    (RunEnded /\ ConfigErrorSeen /\ crash # "TypeError") => AllAttempted

\* C7: when the paginated fetch of a table exhausts its retry budget the run
\* is not aborted: it does not crash and the remaining tables are processed.
C7_FetchFailureIsolated ==
    (RunEnded /\ fpc = "raised" /\ crash # "ValueError") =>
        (mpc = "finished" /\ AllAttempted)

(***************************************************************************)
(* Properties of APIClient.fetch_in_batches / fetch_data.                  *)
(***************************************************************************)
\* The number (from 0) of the batch the item at position j belongs to.
BatchIndex(j) == (j - 1) \div batch_size
InFlight == {j \in 1..Len(items) : task[j] = "inflight"}

\* C8: the batch boundary is a join point: no request of a later batch is
\* started before every request of the earlier batches has completed (with a
\* value or a logged failure), and at most batch_size requests are in flight.
C8_BatchJoin ==
    /\ batch_size >= 1 =>
         \A i, j \in 1..Len(items) :
            (BatchIndex(i) < BatchIndex(j) /\ task[j] # "none")
                => task[i] \in {"value", "nil"}
    /\ Cardinality(InFlight) <= batch_size

C8_Witness ==
    /\ batch_size = 2
    /\ Len(items) = 4
    /\ task[1] = "nil"
    /\ task[2] = "value"
    /\ task[3] = "inflight"
    /\ task[4] = "inflight"

\* C9: the failure of one per-ID request (status, transport error, failed
\* validation) never aborts the batch: the call returns, with one result per
\* item; the synchronous loop requests every ID.
C9_FailureIsolated ==
    /\ (bpc \in {"returned", "raised"} /\ batch_size >= 1) =>
         (bpc = "returned" /\ Len(results) = Len(items))
    /\ ipc = "returned" => Len(id_reqs) = Len(list_ids)

(***************************************************************************)
(* Properties of build_url.                                                *)
(***************************************************************************)
SuppliedNames == IF path_params.none THEN {} ELSE DOMAIN path_params.map

\* C10: build_url fails whenever the template references a placeholder with
\* no value in path_params (omitted or empty included), and never returns a
\* URL that still holds an unresolved placeholder.
C10_MissingPlaceholderFails ==
    upc = "done" =>
        /\ ~(Placeholders(template) \subseteq SuppliedNames) => url_result.raised
        /\ ~url_result.raised => Placeholders(url_result.url) = {}

\* The decimal numeral of a natural number.
Digit == <<"0", "1", "2", "3", "4", "5", "6", "7", "8", "9">>
RECURSIVE Decimal(_)
Decimal(n) == IF n < 10 THEN Digit[n + 1] ELSE Decimal(n \div 10) \o Digit[(n % 10) + 1]

\* C11: for a template that contains {id} and path_params = {id: v}, the
\* URL build_url returns holds the decimal string of v at every place of the
\* placeholder, and no {id} is left in it.
C11_IdSubstituted ==
    (/\ upc = "done"
     /\ entry = "build_url"
     /\ impl \in {"igtao_api", "APIClient"}
     /\ "id" \in Placeholders(template)
     /\ SuppliedNames = {"id"}
     /\ ~url_result.raised)
    => /\ Len(url_result.url) = Len(template)
       /\ \A i \in 1..Len(template) :
            IF template[i] = Ph("id")
            THEN url_result.url[i] = Lit(Decimal(path_params.map["id"]))
            ELSE url_result.url[i] = template[i]

C11_Witness ==
    /\ upc = "done"
    /\ impl = "igtao_api"
    /\ template = <<BASE_URL, Lit("/api/v2/deputados/"), Ph("id")>>
    /\ SuppliedNames = {"id"}
    /\ path_params.map["id"] = 2
    /\ url_result = UrlOk(<<BASE_URL, Lit("/api/v2/deputados/"), Lit("2")>>)

(***************************************************************************)
(* Properties of the query string.                                         *)
(***************************************************************************)
\* The mapping the caller gave: the configured defaults for
\* get_url_with_query_params, the query_params or keyword arguments otherwise.
GivenPairs ==
    IF entry = "get_url_with_query_params" THEN query_parameters
    ELSE IF query_params.none THEN <<>> ELSE query_params.pairs

\* The place of the first "?" of the returned URL, 0 if there is none.
QMark ==
    LET url == url_result.url
        qs == {i \in 1..Len(url) : url[i] = Lit("?")}
    IN  IF qs = {} THEN 0 ELSE CHOOSE i \in qs : \A j \in qs : i <= j

\* The key=value pairs read back from the returned URL.
UrlPairs ==
    LET url == url_result.url
    IN  IF QMark = 0 THEN {}
        ELSE {<<url[i - 1].s, url[i + 1].s>> :
                i \in {j \in (QMark + 2)..(Len(url) - 1) : url[j] = Lit("=")}}

UrlKeys == {p[1] : p \in UrlPairs}

IsEmptyValue(v) ==
    \/ v.kind = "none"
    \/ v.kind = "str" /\ v.s = ""
    \/ v.kind = "list" /\ v.l = <<>>

RECURSIVE CommaJoined(_)
CommaJoined(xs) ==
    IF xs = <<>> THEN ""
    ELSE IF Len(xs) = 1 THEN Decimal(xs[1])
    ELSE Decimal(xs[1]) \o "," \o CommaJoined(Tail(xs))

\* A list as its elements joined by commas, any other value in its natural
\* string form.
Serialized(v) ==
    IF v.kind = "list" THEN CommaJoined(v.l)
    ELSE IF v.kind = "int" THEN Decimal(v.n)
    ELSE IF v.kind = "str" THEN v.s
    ELSE "None"

\* C12: a query parameter whose value is None, the empty string or an empty
\* list does not appear in the query string of the URL.
C12_EmptyValuesAbsent ==
    (upc = "done" /\ ~url_result.raised) =>
        \A i \in 1..Len(GivenPairs) :
            IsEmptyValue(GivenPairs[i].val) => GivenPairs[i].key \notin UrlKeys

\* C13: every parameter of the query string is written with its elements
\* joined by commas when its value is a list, and with its natural string
\* form otherwise.
C13_ListCommaJoined ==
    (upc = "done" /\ ~url_result.raised) =>
        \A p \in UrlPairs :
            \E i \in 1..Len(GivenPairs) :
                /\ GivenPairs[i].key = p[1]
                /\ p[2] = Serialized(GivenPairs[i].val)

\* A retained parameter: its value is neither empty nor the number 0.
IsKept(p) == ~IsEmptyValue(p.val) /\ ~(p.val.kind = "int" /\ p.val.n = 0)

\* C14: the retained parameters appear as key=value in the iteration order
\* of the mapping, joined by "&"; the "?" is appended to the URL only when at
\* least one parameter is retained.
C14_OrderAndSeparators ==
    (upc = "done" /\ impl # "APIClient" /\ ~url_result.raised) =>
        LET kept == SelectSeq(GivenPairs, IsKept)
            url == url_result.url
            q == QMark
        IN  IF kept = <<>> THEN q = 0 /\ Len(url) = Len(template)
            ELSE /\ q = Len(template) + 1
                 /\ Len(url) = q + 4 * Len(kept) - 1
                 /\ \A j \in 1..Len(url) : j # q => url[j] # Lit("?")
                 /\ \A i \in 1..Len(kept) :
                        LET b == q + 4 * (i - 1)
                        IN  /\ url[b + 1] = Lit(kept[i].key)
                            /\ url[b + 2] = Lit("=")
                            /\ url[b + 3] = Lit(Serialized(kept[i].val))
                            /\ i > 1 => url[b] = Lit("&")

C14_Witness ==
    /\ upc = "done"
    /\ entry = "build_url"
    /\ impl = "igtao_api"
    /\ template = DEPUTADOS_ENDPOINT
    /\ query_params = Mapping(<<[key |-> "ordem", val |-> VStr("ASC")],
                                [key |-> "itens", val |-> VList(<<1, 2, 3>>)]>>)
    /\ url_result = UrlOk(DEPUTADOS_ENDPOINT \o
                           <<Lit("?"), Lit("ordem"), Lit("="), Lit("ASC"), Lit("&"),
                             Lit("itens"), Lit("="), Lit("1,2,3")>>)

CallerKeys ==
    IF query_params.none THEN {}
    ELSE {query_params.pairs[i].key : i \in 1..Len(query_params.pairs)}

DeltaItems == {
    [f \in {"id", "nome"} |-> 1],
    [f \in {"id"} |-> 1],
    [f \in {"id", "nome"} |-> 2]}

SeqsUpTo(S, n) == UNION {[1..k -> S] : k \in 0..n}

InitDelta ==
    /\ schema_fields = <<"id", "nome">>
    /\ dados = <<>>
    /\ arrow_data = <<>>
    /\ delta_exists = FALSE
    /\ delta_rows = <<>>
    /\ ncalls = 0
    /\ prev_dados = <<>>
    /\ dpc = "idle"
    /\ PageIdle
    /\ GetIdle
    /\ \E sz \in {<<0>>} : FetchIdle(sz)
    /\ ByIdsIdle
    /\ PipeIdle
    /\ ClientIdle
    /\ UrlIdle

NextDelta ==
    \/ \E b \in SeqsUpTo(DeltaItems, MaxBatchLen) : UpdateLoad(b)
    \/ UpdateAppend
    \/ UpdateCreate

SpecDelta == InitDelta /\ [][NextDelta]_vars

\* The records and field lists transform_data is called with: a record has
\* some of the keys a, b, c with the values 1, 2, 3.
FieldValue == [a |-> 1, b |-> 2, c |-> 3]
TransformItems == {[f \in S |-> FieldValue[f]] : S \in SUBSET {"a", "b", "c"}}
FieldLists ==
    {<<>>, <<"a">>, <<"c">>, <<"z">>, <<"a", "c">>, <<"c", "a">>,
     <<"a", "z">>, <<"z", "c">>, <<"a", "c", "z">>, <<"a", "z", "c">>}

InitTransform ==
    /\ schema_fields \in FieldLists
    /\ dados \in SeqsUpTo(TransformItems, MaxDados)
    /\ arrow_data = <<>>
    /\ delta_exists = FALSE
    /\ delta_rows = <<>>
    /\ ncalls = 0
    /\ prev_dados = <<>>
    /\ dpc = "transform"
    /\ PageIdle
    /\ GetIdle
    /\ \E sz \in {<<0>>} : FetchIdle(sz)
    /\ ByIdsIdle
    /\ PipeIdle
    /\ ClientIdle
    /\ UrlIdle

NextTransform == TransformData

SpecTransform == InitTransform /\ [][NextTransform]_vars

(***************************************************************************)
(* Properties of the order of the requests and of the accumulator.         *)
(***************************************************************************)
\* The href of the first rel == "next" link in the body of page p, None if
\* the body has none.
NextHrefOf(p) ==
    LET links == Links(sizes, p)
        nexts == {k \in 1..Len(links) : links[k].rel = "next"}
    IN  IF nexts = {} THEN None
        ELSE links[CHOOSE k \in nexts : \A m \in nexts : k <= m].href

\* C19: the requests of fetch_paginated_records form one sequence; the
\* first asks for the initial URL, a request after a failed one asks for
\* the same URL, and a request after a successful one asks for the href of
\* the first rel == "next" link of that response.
C19_SequentialCursor ==
    /\ reqs # <<>> => reqs[1].url = 1
    /\ \A i \in 2..Len(reqs) :
          IF reqs[i - 1].ok
          THEN /\ NextHrefOf(reqs[i - 1].url) # None
               /\ reqs[i].url = NextHrefOf(reqs[i - 1].url)
          ELSE reqs[i].url = reqs[i - 1].url

C19_Witness ==
    /\ Len(reqs) = 4
    /\ ~reqs[1].ok
    /\ reqs[2].ok
    /\ reqs[3].url = 2 /\ ~reqs[3].ok
    /\ reqs[4].url = 2 /\ reqs[4].ok

\* C20: in every step of the fetch loop the accumulator is an extension of
\* its previous value: no record is removed, moved or rewritten.
C20_AccumulatorMonotone ==
    [][/\ Len(all_records) <= Len(all_records')
       /\ SubSeq(all_records', 1, Len(all_records)) = all_records]_vars

C20_Witness ==
    /\ fpc = "fetching"
    /\ Len(SelectSeq(reqs, IsOk)) = 2
    /\ Len(all_records) = 2
    /\ ~reqs[Len(reqs)].ok

(***************************************************************************)
(* Properties of the table sink.                                           *)
(***************************************************************************)
RowId(row) == row[1]
StoredIds(rows) == {RowId(rows[i]) : i \in 1..Len(rows)}
DistinctIds(rows) ==
    \A i, j \in 1..Len(rows) : i # j => RowId(rows[i]) # RowId(rows[j])

\* C16 (as stated): whatever the calls of update_delta_table and their
\* batches, no id occurs in more than one stored row.
C16_NoIdTwice == DistinctIds(delta_rows)

\* C16 (amended): the stored rows are only extended, and never by a row
\* whose id was stored before the call; a call whose batch does not repeat
\* an id keeps the stored ids distinct.
C16_DedupAgainstStored ==
    [][/\ Len(delta_rows) <= Len(delta_rows')
       /\ SubSeq(delta_rows', 1, Len(delta_rows)) = delta_rows
       /\ \A i \in (Len(delta_rows) + 1)..Len(delta_rows') :
             RowId(delta_rows'[i]) \notin StoredIds(delta_rows)
       /\ (DistinctIds(delta_rows) /\ DistinctIds(arrow_data))
             => DistinctIds(delta_rows')]_vars

C16_Witness ==
    /\ ncalls = 2
    /\ dpc = "returned"
    /\ arrow_data = <<<<1, None>>, <<2, 2>>>>
    /\ delta_rows = <<<<1, 1>>, <<2, 2>>>>

InitCounter ==
    /\ page_size \in 1..MaxPageSize
    /\ page_number = 1
    /\ page_attempt = 0
    /\ page_counts = <<>>
    /\ page_reqs = <<>>
    /\ ppc = "FETCHING_PAGE"
    /\ SinkIdle
    /\ GetIdle
    /\ \E sz \in {<<0>>} : FetchIdle(sz)
    /\ ByIdsIdle
    /\ PipeIdle
    /\ ClientIdle
    /\ UrlIdle

NextCounter ==
    \/ \E count \in 0..MaxPageSize : PageReturned(count)
    \/ PageFailed

SpecCounter == InitCounter /\ [][NextCounter]_vars

\* C18: under the page-counter convention every page but the last one
\* returned holds exactly page_size records, the fetch goes on after a full
\* page and is done right after the first short page, the empty page
\* included: no request is issued for a page beyond the first short one.
C18_StopsAtFirstShortPage ==
    /\ \A i \in 1..(Len(page_counts) - 1) : page_counts[i] = page_size
    /\ \A i \in 1..Len(page_reqs) : page_reqs[i] <= Len(page_counts) + 1
    /\ (page_counts # <<>> /\ page_counts[Len(page_counts)] < page_size)
         => /\ ppc = "DONE"
            /\ page_reqs[Len(page_reqs)] = Len(page_counts)
            /\ \A i \in 1..Len(page_reqs) : page_reqs[i] <= Len(page_counts)
    /\ (page_counts # <<>> /\ page_counts[Len(page_counts)] = page_size)
         => /\ ppc \in {"FETCHING_PAGE", "FAILED"}
            /\ page_number = Len(page_counts) + 1
    /\ ppc = "DONE" => page_counts # <<>> /\ page_counts[Len(page_counts)] < page_size

C18_Witness ==
    /\ ppc = "DONE"
    /\ page_size = 3
    /\ page_counts = <<3, 3, 1>>
    /\ page_reqs = <<1, 2, 3>>

(***************************************************************************)
(* Further properties of APIClient.fetch_in_batches.                       *)
(***************************************************************************)
\* The positions of the batch the loop is at, counted from the items alone.
BatchAt(start) == {j \in 1..Len(items) : start < j /\ j <= start + batch_size}

InitGet ==
    /\ site \in Sites
    /\ server \in {"answers", "silent"}
    /\ timeout = None
    /\ elapsed = 0
    /\ gpc = "call"
    /\ SinkIdle
    /\ PageIdle
    /\ \E sz \in {<<0>>} : FetchIdle(sz)
    /\ ByIdsIdle
    /\ PipeIdle
    /\ ClientIdle
    /\ UrlIdle

NextGet == GetIssued \/ GetWaits \/ GetAnswered \/ GetTimesOut

SpecGet == InitGet /\ [][NextGet]_vars

\* C22: every GET of the fetchers runs under a timeout and never waits
\* longer than it: against a server that never answers it ends as a failure.
C22_EveryGetBounded ==
    /\ gpc = "waiting" => (timeout # None /\ elapsed <= timeout)
    /\ (server = "silent" /\ gpc \notin {"call", "waiting"}) => gpc = "failure"

(***************************************************************************)
(* Specification of main of igtao_api.py and properties of the active flag. *)
(***************************************************************************)
InitApiMain ==
    /\ \E sz \in PipeChains : FetchIdle(sz)
    /\ ByIdsIdle
    /\ AuxIdle
    /\ glob \in Listings
    /\ cfg \in [Files -> UNION {Configs(f) : f \in Files}]
    /\ \A f \in Files : cfg[f] \in Configs(f)
    /\ \A f \in Files : (\A i \in 1..Len(glob) : glob[i] # f) => ~cfg[f].loadable
    /\ config_files = <<>>
    /\ idx = 1
    /\ cached_records = NoResult
    /\ attempted = <<>>
    /\ saved = {}
    /\ crash = "none"
    /\ mpc = "api_start"
    /\ ClientIdle
    /\ UrlIdle

NextApiMain ==
    \/ ApiMainStart
    \/ ApiUnloadable
    \/ ApiOtherTable
    \/ ApiDeputadosPorId
    \/ Attempt
    \/ ApiAfterGetDeputados
    \/ FetchById
    \/ ApiAfterFetchByIds

SpecApiMain == InitApiMain /\ [][NextApiMain]_vars

\* The configuration file declares active = false.
Inactive(f) == cfg[f].loadable /\ "active" \in cfg[f].keys /\ ~cfg[f].active

\* C23: for a table whose configuration has active = false no HTTP request
\* is issued (neither a page request of deputados nor a per-ID request of
\* deputados_por_id) and no output file is written.
C23_ActiveGates ==
    /\ Inactive(DEPUTADOS_JSON) => (reqs = <<>> /\ "deputados" \notin saved)
    /\ Inactive(DEPUTADOS_POR_ID_JSON) =>
         (id_reqs = <<>> /\ "deputados_por_id" \notin saved)

(***************************************************************************)
(* Specification and properties of the configuration through a run: the    *)
(* pipeline of igtao_api_deputados.py, and build_url /                     *)
(* get_url_with_query_params called twice with the same configuration.     *)
(***************************************************************************)
InitConfig ==
    \/ InitPipe
    \/ /\ InitQuery
       /\ entry \in {"build_url", "get_url_with_query_params"}
       /\ impl # "APIClient"

NextConfig == NextPipe \/ BuildUrl \/ BuildUrlAgain

SpecConfig == InitConfig /\ [][NextConfig]_vars

\* C24: no step of build_url, get_url_with_query_params,
\* fetch_records_by_ids or run_pipeline changes the configuration (the
\* mapping of each file, the base_url and url template, the
\* query_parameters), and building the URL a second time gives the same
\* result.
C24_ConfigImmutable ==
    [][/\ cfg' = cfg
       /\ template' = template
       /\ query_parameters' = query_parameters
       /\ upc' = "done_again" => url_result' = url_result]_vars

C24_Witness ==
    /\ upc = "done_again"
    /\ entry = "get_url_with_query_params"
    /\ query_parameters = <<[key |-> "itens", val |-> VStr("ASC")],
                            [key |-> "ordem", val |-> VNone]>>
    /\ UrlPairs = {<<"itens", "ASC">>}

(***************************************************************************)
(* Termination of fetch_paginated_records.                                 *)
(***************************************************************************)
\* C25: the fetch loop always ends: every step it takes while fetching
\* issues one request, and no page is requested more than `retries` times,
\* so that after at most retries requests per page of the finite chain the
\* call has returned or raised.
C25_Terminates ==
    [][fpc = "fetching" =>
         /\ Len(reqs') = Len(reqs) + 1
         /\ Cardinality({i \in 1..Len(reqs') : reqs'[i].url = next_page}) <= retries
         /\ next_page' = None => fpc' = "returned"]_vars

(***************************************************************************)
(* The records main carries from one run_pipeline call to the next.        *)
(***************************************************************************)
\* C26: in main of igtao_api_deputados the deputados configuration is the
\* first one processed; when the loop comes to deputados_por_id after that
\* extraction, cached_records is still the list the extraction produced
\* (not lost or replaced by None by the files in between); and the ID list
\* of deputados_por_id is derived from the list of that extraction.
C26_CacheCarried ==
    /\ WasAttempted(DEPUTADOS_JSON) => attempted[1] = DEPUTADOS_JSON
    /\ (InLoop /\ CurFile = DEPUTADOS_POR_ID_JSON /\ "deputados" \in saved) =>
         cached_records = dep_result
    /\ mpc = "fetch_by_ids" =>
         ("deputados" \in saved /\ list_ids = IdsOf(dep_result.recs))

(***************************************************************************)
(* A call of fetch_records_by_ids on its own.                              *)
(***************************************************************************)
\* The ID lists a caller may pass: any order, repetitions included.
IdLists == UNION {[1..n -> 1..MaxIdValue] : n \in 0..MaxIds}

InitByIds ==
    /\ list_ids \in IdLists
    /\ id_pos = 1
    /\ id_records = <<>>
    /\ id_reqs = <<>>
    /\ ipc = IF list_ids = <<>> THEN "returned" ELSE "fetching"
    /\ \E sz \in {<<0>>} : FetchIdle(sz)
    /\ PipeIdle
    /\ ClientIdle
    /\ UrlIdle
    /\ AuxIdle

NextByIds == FetchById

SpecByIds == InitByIds /\ [][NextByIds]_vars

RECURSIVE BodiesOf(_)
\* The bodies of the requests of a log that were answered with status 200.
BodiesOf(log) ==
    IF log = <<>> THEN <<>>
    ELSE (IF Head(log).ok THEN <<[dados |-> [id |-> Head(log).id]]>> ELSE <<>>)
         \o BodiesOf(Tail(log))

\* C27: fetch_records_by_ids issues one GET per ID, in the order of the ID
\* list and with no retry (the i-th request is for the i-th ID, and on return
\* there are as many requests as IDs); its records are the bodies of the
\* requests answered with status 200, in request order; and it never holds
\* more records than there are IDs.
C27_OneGetPerId ==
    /\ Len(id_reqs) = id_pos - 1
    /\ Len(id_reqs) <= Len(list_ids)
    /\ \A i \in 1..Len(id_reqs) : id_reqs[i].id = list_ids[i]
    /\ ipc = "returned" => Len(id_reqs) = Len(list_ids)
    /\ id_records = BodiesOf(id_reqs)
    /\ Len(id_records) <= Len(list_ids)

C27_Witness ==
    /\ ipc = "returned"
    /\ list_ids = <<2, 1, 2>>
    /\ ~id_reqs[2].ok
    /\ id_records = <<Detail(2), Detail(2)>>

(***************************************************************************)
(* update_delta_table called again with the records of the call before.    *)
(***************************************************************************)
\* The records of a JSON file in which one record has no id.
SinkItems == DeltaItems \cup {[f \in {"nome"} |-> 2]}

NextSink ==
    \/ \E b \in SeqsUpTo(SinkItems, MaxBatchLen) : UpdateLoad(b)
    \/ UpdateAppend
    \/ UpdateCreate

SpecSink == InitDelta /\ [][NextSink]_vars

\* C28: update_delta_table only appends (the rows stored before a call are
\* the first rows stored after it, unchanged), and a call with the same
\* records as the call before it, on the table that call left, writes
\* nothing: the stored rows stay as they are.
C28_Idempotent ==
    [][/\ Len(delta_rows) <= Len(delta_rows')
       /\ SubSeq(delta_rows', 1, Len(delta_rows)) = delta_rows
       /\ (dpc = "table" /\ delta_exists /\ ncalls >= 2 /\ dados = prev_dados)
             => delta_rows' = delta_rows]_vars

====
